---- MODULE Spec2Model ----
(***************************************************************************)
(* Model of src/server.js: the Instagram comment auto-DM service.          *)
(*                                                                         *)
(* The Node event loop runs one piece of synchronous code at a time: a     *)
(* handler runs until it returns or reaches an await.  `running` is the    *)
(* webhook delivery whose synchronous code is executing (0: none); every   *)
(* other handler can start only when running = 0.  The admin handlers hold *)
(* no await and are one step each.  The webhook handler yields at          *)
(* `await sendPrivateReply(...)` (the two awaits of lines 67 and 76 touch  *)
(* no state of the store between them and are one suspension here).        *)
(*                                                                         *)
(* Identifiers are the platform's ids: strings without ':'.                *)
(***************************************************************************)
EXTENDS Integers, Sequences, FiniteSets, TLC

\* ---------------------------------------------------------------- bounds
MaxInFlight == 2     \* webhook deliveries being handled at the same time
MaxDeliveries == 2   \* first deliveries of a webhook payload in a run
MaxAdmin == 1        \* authenticated admin requests in a run
MaxFail == 1         \* outbound calls that fail in a run
MaxBatch == 2        \* changes in one webhook payload
MaxPad == 1          \* spaces on each side of a submitted dm_text
PreLoad == 199       \* log entries of a data.json left by an earlier run

\* ------------------------------------------------------ program constants
LogLimit == 200      \* data.logs.slice(0, 200)
StatusOK == 200
StatusFound == 302
StatusUnauthorized == 401
StatusForbidden == 403

Undefined == "<undefined>"    \* a missing query parameter, header or field
Password == "pw"              \* process.env.ADMIN_PASSWORD when it is set
Passwords == {Undefined, Password, "bad"}
Token == "vt"                 \* process.env.VERIFY_TOKEN when it is set

DefaultText == <<"T">>        \* loadData's built-in dm_text
FallbackText == <<"F">>       \* the fallback of line 109

Slots == 1..MaxInFlight

VARIABLES
  ADMIN_PASSWORD,  \* the configured password, Undefined when unset
  VERIFY_TOKEN,    \* the configured verify token, Undefined when unset
  DB,              \* the in-memory store: [dm_text, sent_keys, logs]
  disk,            \* the document of data.json (what loadData would return)
  hs,              \* the webhook deliveries: Slots -> delivery record
  running,         \* the delivery whose synchronous code is executing, or 0
  resp,            \* the last response of an admin route
  vresp,           \* the last response of GET /webhook
  replies,         \* history: successful outbound replies per key since the last reset
  cleared,         \* history: keys a reset removed, no outbound call issued for them since
  received,        \* history: keys of the well-formed comment events received
  nlogs,           \* history: log entries ever created
  nRecv, nAdmin, nFail   \* counters of the bounds

vars == <<ADMIN_PASSWORD, VERIFY_TOKEN, DB, disk, hs, running, resp, vresp, replies,
          cleared, received, nlogs, nRecv, nAdmin, nFail>>

\* ---------------------------------------------------------------- inputs
Change(id, media, from) == [id |-> id, media |-> media, from |-> from]

Changes ==
  { Change("c1", "m1", "u1"),
    Change("c2", "m2", "u1"),
    Change("c3", Undefined, "u1") }

RECURSIVE SeqsUpTo(_, _)
SeqsUpTo(S, n) ==
  IF n = 0 THEN {<<>>}
  ELSE LET shorter == SeqsUpTo(S, n - 1)
       IN  shorter \cup {Append(s, x) : s \in {t \in shorter : Len(t) = n - 1}, x \in S}

\* A payload: body.object and the changes of body.entry[*].changes[*] in the
\* order the two nested loops of lines 90-91 visit them.
Payloads ==
  {[object |-> "instagram", batch |-> b] : b \in SeqsUpTo(Changes, MaxBatch)}
    \cup {[object |-> "page", batch |-> <<Change("c1", "m1", "u1")>>]}

\* Submitted texts: empty, spaces only, and "x" with MaxPad spaces on each side.
Pad == [i \in 1..MaxPad |-> " "]

Texts == {<<>>, Pad, Pad \o <<"x">> \o Pad}

Requests == [query : Passwords, header : Passwords]

\* -------------------------------------------------------------- the store
Min(a, b) == IF a < b THEN a ELSE b

Entry(n, type, msg, key, comment_id, error) ==
  [n |-> n, type |-> type, msg |-> msg, key |-> key,
   comment_id |-> comment_id, error |-> error]

\* addLog: unshift, then keep the first 200.
addLogNoTruncate(db, e) == [db EXCEPT !.logs = <<e>> \o db.logs]
addLogAppend(db, e) ==
  [db EXCEPT !.logs = SubSeq(db.logs \o <<e>>, 1, Min(Len(db.logs) + 1, LogLimit))]
addLog(db, e) ==
  [db EXCEPT !.logs = SubSeq(<<e>> \o db.logs, 1, Min(Len(db.logs) + 1, LogLimit))]

\* saveData: the document written is the store.
saveData(db) == db

\* The key of a change, `${media_id}:${from_id}`.
Key(c) == c.media \o ":" \o c.from

Keys == {Key(c) : c \in {x \in Changes : x.media # Undefined /\ x.from # Undefined}}

\* line 99: a change with a field missing is passed over.
MalformedIdOnly(c) == c.id = Undefined
Malformed(c) == c.id = Undefined \/ c.media = Undefined \/ c.from = Undefined

\* line 103: DB.sent_keys[key] is a Date.now() value, truthy when present.
AlreadySentNever(db, key) == FALSE
AlreadySent(db, key) == key \in db.sent_keys

\* line 109
MessageFallback(db) == FallbackText
Message(db) == IF db.dm_text = <<>> THEN FallbackText ELSE db.dm_text

\* String.prototype.trim over the characters of the model.
RECURSIVE TrimLeft(_)
TrimLeft(s) == IF s # <<>> /\ Head(s) = " " THEN TrimLeft(Tail(s)) ELSE s

RECURSIVE TrimRight(_)
TrimRight(s) ==
  IF s # <<>> /\ s[Len(s)] = " " THEN TrimRight(SubSeq(s, 1, Len(s) - 1)) ELSE s

Trim(s) == TrimRight(TrimLeft(s))

\* ------------------------------------------------------------------ Init
\* A delivery record: the handler's position and locals, and the history of
\* the delivery (seen, text0: sent_keys and dm_text when the handler began).
IdleSlot ==
  [pc |-> "idle", object |-> "", batch |-> <<>>, i |-> 1, status |-> 0,
   msg |-> <<>>, text0 |-> <<>>, seen |-> {}, skips |-> {}, called |-> {}, failedAt |-> 0, len |-> 0]

\* A handler that has returned: its request and locals are gone; the history
\* of what it did (status, skips, called, failedAt, len) stays until the slot
\* holds the next delivery.
Returned(h) ==
  [IdleSlot EXCEPT !.pc = "done", !.status = h.status, !.skips = h.skips,
                   !.called = h.called, !.failedAt = h.failedAt, !.len = h.len]

\* The log an earlier run left: n "config" entries, newest first.
OldLogs(n) ==
  [i \in 1..n |-> Entry(n - i + 1, "config", "sent_keys reset", Undefined, Undefined, Undefined)]

\* loadData: n = 0 is the built-in default document (no data.json).
Loaded(n) ==
  /\ DB = [dm_text |-> DefaultText, sent_keys |-> {}, logs |-> OldLogs(n)]
  /\ nlogs = n
  /\ disk = DB

Started ==
  /\ hs = [d \in Slots |-> IdleSlot]
  /\ running = 0
  /\ resp = [status |-> 0, loc |-> ""]
  /\ vresp = [status |-> 0, body |-> ""]
  /\ replies = [k \in Keys |-> 0]
  /\ cleared = {}
  /\ received = {}
  /\ nRecv = 0
  /\ nAdmin = 0
  /\ nFail = 0

Init ==
  /\ ADMIN_PASSWORD \in {Undefined, Password}
  /\ VERIFY_TOKEN = Token
  /\ Loaded(0)
  /\ Started

\* A start on the data.json of an earlier run that made PreLoad resets.
InitLoaded ==
  /\ ADMIN_PASSWORD = Password
  /\ VERIFY_TOKEN = Token
  /\ Loaded(PreLoad)
  /\ Started

\* ------------------------------------------------- POST /webhook (82-122)
\* line 84: res.sendStatus(200), the first statement of the handler.
AckStatusNever(p) == 0
AckStatus(p) == StatusOK

\* lines 87-88: a payload of another object type ends the handler.
AfterObjectCheckSkipped(p) == "loop"
AfterObjectCheck(p) == IF p.object # "instagram" THEN "done" ELSE "loop"

SlotRunning(h) == h.pc = "loop"

\* The slot the next delivery is held in: the first one not in use.
FreeSlot(d) ==
  /\ hs[d].pc \in {"idle", "done"}
  /\ \A e \in Slots : e < d => hs[e].pc \notin {"idle", "done"}

\* The keys of the well-formed comment events of a payload the handler accepts.
EventKeys(p) ==
  IF p.object # "instagram" THEN {}
  ELSE {Key(p.batch[i]) : i \in {j \in 1..Len(p.batch) : ~Malformed(p.batch[j])}}

\* lines 82-88: the handler is invoked, acknowledges and reads the body.
Handle(d, p) ==
  /\ running = 0
  /\ FreeSlot(d)
  /\ received' = received \cup EventKeys(p)
  /\ hs' = [hs EXCEPT ![d] =
              LET h == [IdleSlot EXCEPT !.pc = AfterObjectCheck(p), !.object = p.object,
                                        !.batch = p.batch, !.status = AckStatus(p),
                                        !.seen = DB.sent_keys, !.text0 = DB.dm_text,
                                        !.len = Len(p.batch)]
              IN  IF h.pc = "done" THEN Returned(h) ELSE h]
  /\ running' = IF SlotRunning(hs'[d]) THEN d ELSE 0
  /\ UNCHANGED <<ADMIN_PASSWORD, VERIFY_TOKEN, vresp, DB, disk, resp, replies, cleared, nlogs, nAdmin, nFail>>

\* A first delivery of a payload.
Receive(d, p) ==
  /\ nRecv < MaxDeliveries
  /\ nRecv' = nRecv + 1
  /\ Handle(d, p)

\* At-least-once delivery: once the deliveries before it have been handled,
\* the platform delivers again a payload that carries an event received before
\* and not replied to.  These deliveries are not counted: they go on for as
\* long as the event stays without a reply.
Redelivery(p) ==
  /\ \A e \in Slots : hs[e].pc \in {"idle", "done"}
  /\ \E k \in EventKeys(p) : k \in received /\ k \notin DB.sent_keys

Redeliver(d, p) ==
  /\ Redelivery(p)
  /\ nRecv' = nRecv
  /\ Handle(d, p)

AtChange(d) ==
  /\ running = d
  /\ hs[d].pc = "loop"
  /\ hs[d].i <= Len(hs[d].batch)

Cur(d) == hs[d].batch[hs[d].i]

\* lines 90-91, 117: the loops are over, the handler returns.
LoopEnd(d) ==
  /\ running = d
  /\ hs[d].pc = "loop"
  /\ hs[d].i > Len(hs[d].batch)
  /\ hs' = [hs EXCEPT ![d] = Returned(hs[d])]
  /\ running' = 0
  /\ UNCHANGED <<ADMIN_PASSWORD, VERIFY_TOKEN, vresp, DB, disk, resp, replies, cleared, received, nlogs, nRecv, nAdmin, nFail>>

\* line 99: continue.
SkipMalformed(d) ==
  /\ AtChange(d)
  /\ Malformed(Cur(d))
  /\ hs' = [hs EXCEPT ![d].i = @ + 1]
  /\ UNCHANGED <<ADMIN_PASSWORD, VERIFY_TOKEN, vresp, DB, disk, running, resp, replies, cleared, received, nlogs,
                 nRecv, nAdmin, nFail>>

\* lines 103-106: the store after the skip branch (no saveData there).
SkipStoreSilent(db, key, n) == db
SkipStore(db, key, n) ==
  addLog(db, Entry(n, "skip", "Already messaged for this post", key, Undefined, Undefined))

SkipSent(d) ==
  /\ AtChange(d)
  /\ ~Malformed(Cur(d))
  /\ AlreadySent(DB, Key(Cur(d)))
  /\ DB' = SkipStore(DB, Key(Cur(d)), nlogs + 1)
  /\ nlogs' = nlogs + 1
  /\ hs' = [hs EXCEPT ![d].i = @ + 1, ![d].skips = @ \cup {hs[d].i}]
  /\ UNCHANGED <<ADMIN_PASSWORD, VERIFY_TOKEN, vresp, disk, running, resp, replies, cleared, received, nRecv, nAdmin, nFail>>

\* lines 108-110: the store when the call is issued (the key is recorded only
\* after the call has returned, line 112).
CallStoreMarksSent(db, key) == [db EXCEPT !.sent_keys = @ \cup {key}]
CallStore(db, key) == db

\* lines 109-110 and 63-74: the message is read, the request is issued and
\* the handler is suspended.
Call(d) ==
  /\ AtChange(d)
  /\ ~Malformed(Cur(d))
  /\ ~AlreadySent(DB, Key(Cur(d)))
  /\ DB' = CallStore(DB, Key(Cur(d)))
  /\ hs' = [hs EXCEPT ![d].pc = "await", ![d].msg = Message(DB),
                      ![d].called = @ \cup {hs[d].i}]
  /\ running' = 0
  /\ cleared' = cleared \ {Key(Cur(d))}
  /\ UNCHANGED <<ADMIN_PASSWORD, VERIFY_TOKEN, vresp, disk, resp, replies, received, nlogs, nRecv, nAdmin, nFail>>

\* lines 112-113: the store after a reply that succeeded.
SentStoreNoKey(db, key, comment_id, n) ==
  addLog(db, Entry(n, "sent", "DM sent via private reply", key, comment_id, Undefined))
SentStoreOnlyKey(db, key, comment_id, n) ==
  addLog([db EXCEPT !.sent_keys = {key}],
         Entry(n, "sent", "DM sent via private reply", key, comment_id, Undefined))
SentStore(db, key, comment_id, n) ==
  addLog([db EXCEPT !.sent_keys = @ \cup {key}],
         Entry(n, "sent", "DM sent via private reply", key, comment_id, Undefined))

\* lines 76-78, 110-116: the call returns a 2xx response; the handler resumes,
\* records the key, logs, saves and goes on to the next change.
Succeed(d) ==
  /\ running = 0
  /\ hs[d].pc = "await"
  /\ LET c == Cur(d) IN
       /\ DB' = SentStore(DB, Key(c), c.id, nlogs + 1)
       /\ replies' = [replies EXCEPT ![Key(c)] = @ + 1]
  /\ disk' = saveData(DB')
  /\ nlogs' = nlogs + 1
  /\ hs' = [hs EXCEPT ![d].pc = "loop", ![d].i = @ + 1]
  /\ running' = d
  /\ UNCHANGED <<ADMIN_PASSWORD, VERIFY_TOKEN, vresp, resp, cleared, received, nRecv, nAdmin, nFail>>

\* lines 118-121: the catch block ends the handler.
AfterFailureContinue(h) == [h EXCEPT !.pc = "loop", !.i = h.i + 1, !.failedAt = h.i]
AfterFailure(h) == Returned([h EXCEPT !.failedAt = h.i])

\* lines 119-120: the store after the catch block's addLog.
ErrorStoreSilent(db, err, n) == db
ErrorStore(db, err, n) ==
  addLog(db, Entry(n, "error", "Webhook processing failed", Undefined, Undefined, err))

\* lines 67-77, 118-121: the call fails (err = "http": a non-2xx response,
\* "net": fetch or r.json() rejects); the catch block logs and saves.
Fail(d, err) ==
  /\ running = 0
  /\ hs[d].pc = "await"
  /\ nFail < MaxFail
  /\ nFail' = nFail + 1
  /\ DB' = ErrorStore(DB, err, nlogs + 1)
  /\ disk' = saveData(DB')
  /\ nlogs' = nlogs + 1
  /\ hs' = [hs EXCEPT ![d] = AfterFailure(hs[d])]
  /\ running' = IF SlotRunning(hs'[d]) THEN d ELSE 0
  /\ UNCHANGED <<ADMIN_PASSWORD, VERIFY_TOKEN, vresp, resp, replies, cleared, received, nRecv, nAdmin>>

\* ------------------------------------------------------ admin (125-208)
\* line 126: req.query.pass || req.headers["x-admin-pass"]
SuppliedPass(req) == IF req.query \in {Undefined, ""} THEN req.header ELSE req.query

\* lines 127-131
requireAuthNoUnsetCheck(req) == SuppliedPass(req) = ADMIN_PASSWORD
requireAuth(req) ==
  /\ ADMIN_PASSWORD \notin {Undefined, ""}
  /\ SuppliedPass(req) = ADMIN_PASSWORD

\* line 128
Unauthorized == [status |-> StatusUnauthorized, loc |-> ""]

\* encodeURIComponent(req.query.pass): the passwords of the model hold no
\* character it escapes; undefined becomes the text "undefined".
EncodePass(q) == IF q = Undefined THEN "undefined" ELSE q

\* lines 140-184
AdminGet(req) ==
  /\ running = 0
  /\ resp' = IF requireAuth(req) THEN [status |-> StatusOK, loc |-> ""]
             ELSE Unauthorized
  /\ UNCHANGED <<ADMIN_PASSWORD, VERIFY_TOKEN, vresp, DB, disk, hs, running, replies, cleared, received, nlogs,
                 nRecv, nAdmin, nFail>>

\* lines 192-193: the submitted text, trimmed, replaces dm_text unless empty.
SavedTextAlways(db, body) == Trim(IF body.has THEN body.dm_text ELSE <<>>)
SavedTextUntrimmed(db, body) ==
  LET raw == IF body.has THEN body.dm_text ELSE <<>>
  IN  IF Len(raw) > 0 THEN raw ELSE db.dm_text
SavedText(db, body) ==
  LET dm_text == Trim(IF body.has THEN body.dm_text ELSE <<>>)
  IN  IF Len(dm_text) > 0 THEN dm_text ELSE db.dm_text

Bodies == {[has |-> FALSE, dm_text |-> <<>>]} \cup {[has |-> TRUE, dm_text |-> t] : t \in Texts}

\* lines 189-198
AdminSave(req, body) ==
  /\ running = 0
  /\ IF requireAuth(req)
       THEN /\ nAdmin < MaxAdmin
            /\ nAdmin' = nAdmin + 1
            /\ DB' = addLog([DB EXCEPT !.dm_text = SavedText(DB, body)],
                            Entry(nlogs + 1, "config", "DM text updated",
                                  Undefined, Undefined, Undefined))
            /\ disk' = saveData(DB')
            /\ nlogs' = nlogs + 1
            /\ resp' = [status |-> StatusFound, loc |-> EncodePass(req.query)]
       ELSE /\ resp' = Unauthorized
            /\ UNCHANGED <<DB, disk, nlogs, nAdmin>>
  /\ UNCHANGED <<ADMIN_PASSWORD, VERIFY_TOKEN, vresp, hs, running, replies, cleared, received, nRecv, nFail>>

\* line 203
ResetKeysKeep(db) == db
ResetKeys(db) == [db EXCEPT !.sent_keys = {}]

\* lines 200-208
AdminReset(req) ==
  /\ running = 0
  /\ IF requireAuth(req)
       THEN /\ nAdmin < MaxAdmin
            /\ nAdmin' = nAdmin + 1
            /\ DB' = addLog(ResetKeys(DB),
                            Entry(nlogs + 1, "config", "sent_keys reset",
                                  Undefined, Undefined, Undefined))
            /\ disk' = saveData(DB')
            /\ nlogs' = nlogs + 1
            /\ resp' = [status |-> StatusOK, loc |-> ""]
            /\ replies' = [k \in Keys |-> 0]
            /\ cleared' = DB.sent_keys
            /\ hs' = [d \in Slots |-> [hs[d] EXCEPT !.seen = {}]]
       ELSE /\ resp' = Unauthorized
            /\ UNCHANGED <<DB, disk, nlogs, nAdmin, replies, cleared, hs>>
  /\ UNCHANGED <<ADMIN_PASSWORD, VERIFY_TOKEN, vresp, running, received, nRecv, nFail>>

\* ------------------------------------------------------------------ Next
Next ==
  \/ \E d \in Slots, p \in Payloads : Receive(d, p)
  \/ \E d \in Slots : LoopEnd(d)
  \/ \E d \in Slots : SkipMalformed(d)
  \/ \E d \in Slots : SkipSent(d)
  \/ \E d \in Slots : Call(d)
  \/ \E d \in Slots : Succeed(d)
  \/ \E d \in Slots, err \in {"http", "net"} : Fail(d, err)
  \/ \E req \in Requests : AdminGet(req)
  \/ \E req \in Requests, body \in Bodies : AdminSave(req, body)
  \/ \E req \in Requests : AdminReset(req)

Spec == Init /\ [][Next]_vars

\* The same handlers on the long log, with fewer inputs: four payloads, and a
\* request with the password and one without.
LogPayloads ==
  {[object |-> "instagram", batch |-> b] :
     b \in {<<>>,
            <<Change("c1", "m1", "u1")>>,
            <<Change("c1", "m1", "u1"), Change("c2", "m2", "u1")>>,
            <<Change("c3", Undefined, "u1"), Change("c1", "m1", "u1")>>}}

LogRequests == {[query |-> q, header |-> Undefined] : q \in {Password, Undefined}}

LogBodies == {[has |-> TRUE, dm_text |-> t] : t \in {<<>>, <<"x">>}}

NextLog ==
  \/ \E d \in Slots, p \in LogPayloads : Receive(d, p)
  \/ \E d \in Slots : LoopEnd(d)
  \/ \E d \in Slots : SkipMalformed(d)
  \/ \E d \in Slots : SkipSent(d)
  \/ \E d \in Slots : Call(d)
  \/ \E d \in Slots : Succeed(d)
  \/ \E d \in Slots, err \in {"http", "net"} : Fail(d, err)
  \/ \E req \in LogRequests : AdminGet(req)
  \/ \E req \in LogRequests, body \in LogBodies : AdminSave(req, body)
  \/ \E req \in LogRequests : AdminReset(req)

LogSpec == InitLoaded /\ [][NextLog]_vars

\* -------------------------------------------------- at-least-once delivery
InitLive ==
  /\ ADMIN_PASSWORD = Undefined
  /\ VERIFY_TOKEN = Token
  /\ Loaded(0)
  /\ Started

NextLive ==
  \/ Next
  \/ \E d \in Slots, p \in Payloads : Redeliver(d, p)

\* The event loop runs the handler that is ready; an outbound call that is
\* pending completes, and succeeds once the failures of the run are spent; the
\* platform goes on redelivering.
Fairness ==
  /\ \A d \in Slots :
       /\ WF_vars(LoopEnd(d) \/ SkipMalformed(d) \/ SkipSent(d) \/ Call(d))
       /\ WF_vars(Succeed(d) \/ \E err \in {"http", "net"} : Fail(d, err))
  /\ WF_vars(\E d \in Slots, p \in Payloads : Redeliver(d, p))

LiveSpec == InitLive /\ [][NextLive]_vars /\ Fairness

\* --------------------------------------------------- GET /webhook (51-60)
\* lines 52-54: hub.mode, hub.verify_token and hub.challenge of the query.
Queries ==
  [mode : {Undefined, "subscribe", "unsubscribe"},
   token : {Undefined, Token, "bad"},
   challenge : {Undefined, "ch1"}]

\* line 56: strict equality, with nothing that tells a token from a missing one.
TokenMatches(q) == q.token = VERIFY_TOKEN

\* line 57: res.send(challenge); with no challenge the body is empty.
SentBody(challenge) == IF challenge = Undefined THEN "" ELSE challenge

\* lines 51-60; res.sendStatus(403) sends the status text as the body.
Verify(q) ==
  /\ running = 0
  /\ vresp' = IF q.mode = "subscribe" /\ TokenMatches(q)
                THEN [status |-> StatusOK, body |-> SentBody(q.challenge)]
                ELSE [status |-> StatusForbidden, body |-> "Forbidden"]
  /\ UNCHANGED <<ADMIN_PASSWORD, VERIFY_TOKEN, DB, disk, hs, running, resp, replies,
                 cleared, received, nlogs, nRecv, nAdmin, nFail>>

\* The verification handshake among the other handlers (on the inputs of
\* NextLog), with the verify token and the admin password set or unset.
InitVerify ==
  /\ ADMIN_PASSWORD \in {Undefined, Password}
  /\ VERIFY_TOKEN \in {Undefined, Token}
  /\ Loaded(0)
  /\ Started

NextVerify ==
  \/ NextLog
  \/ \E q \in Queries : Verify(q)

VerifySpec == InitVerify /\ [][NextVerify]_vars

\* ================================================================ claims
IsPrefix(s, t) == Len(s) <= Len(t) /\ SubSeq(t, 1, Len(s)) = s

\* One entry was put at the head of the log and nothing else changed in it.
LoggedOne(type) ==
  /\ nlogs' = nlogs + 1
  /\ Len(DB'.logs) = Min(Len(DB.logs) + 1, LogLimit)
  /\ DB'.logs[1].type = type
  /\ DB'.logs[1].n = nlogs + 1
  /\ IsPrefix(Tail(DB'.logs), DB.logs)

Quiescent == running = 0 /\ \A d \in Slots : hs[d].pc \in {"idle", "done"}

\* C1: in every reachable state, each (post_id, commenter_id) pair has had at
\* most one successful outbound reply since the last reset (or since startup),
\* whatever the interleaving of the deliveries.
AtMostOneReply == \A k \in Keys : replies[k] <= 1

\* C2: a delivery that carries an event whose key was recorded before the
\* delivery arrived, with no reset since, issues no outbound call for it, adds
\* one "skip" entry carrying the key, and leaves sent_keys and the count of
\* replies as they were.
SkipOnRedelivery ==
  [][\A d \in Slots :
       (AtChange(d) /\ ~Malformed(Cur(d)) /\ Key(Cur(d)) \in hs[d].seen)
         => /\ hs'[d].called = hs[d].called
            /\ hs'[d].pc # "await"
            /\ hs'[d].skips = hs[d].skips \cup {hs[d].i}
            /\ replies' = replies
            /\ DB'.sent_keys = DB.sent_keys
            /\ LoggedOne("skip")
            /\ DB'.logs[1].key = Key(Cur(d))]_vars

SkipOnRedeliveryWitness ==
  \E d \in Slots :
    /\ hs[d].pc = "loop"
    /\ \E j \in hs[d].skips :
         /\ Key(hs[d].batch[j]) \in hs[d].seen
         /\ replies[Key(hs[d].batch[j])] = 1
         /\ DB.logs[1].type = "skip"

\* C3: with the platform redelivering and the outbound call succeeding in the
\* end, every key of a well-formed event received gets a successful reply.
Replied == \A k \in Keys : (k \in received) ~> (replies[k] > 0)

\* Both events came in one delivery, a call failed, and both were replied to.
RepliedWitness ==
  /\ nRecv = 1
  /\ nFail = 1
  /\ received = Keys
  /\ \A k \in Keys : replies[k] = 1

\* C4: an authenticated reset empties sent_keys, adds one "config" entry and
\* saves; and the next time a delivery comes to an event whose key the reset
\* removed, it issues an outbound call instead of skipping.
ResetThenReply ==
  [][/\ (nAdmin' = nAdmin + 1 /\ DB'.logs[1].msg = "sent_keys reset")
         => /\ DB'.sent_keys = {}
            /\ DB'.dm_text = DB.dm_text
            /\ LoggedOne("config")
            /\ disk' = DB'
     /\ \A d \in Slots :
          (AtChange(d) /\ ~Malformed(Cur(d)) /\ Key(Cur(d)) \in cleared)
            => /\ hs'[d].pc = "await"
               /\ hs'[d].called = hs[d].called \cup {hs[d].i}]_vars

\* C5: an admin request that supplies the configured password neither in the
\* query nor in the header, and any admin request when no password is
\* configured, is answered 401 and changes neither the store nor the file.
NoValidPassword(req) ==
  \/ ADMIN_PASSWORD = Undefined
  \/ req.query # ADMIN_PASSWORD /\ req.header # ADMIN_PASSWORD

UnauthorizedRejected ==
  [][\A req \in Requests :
       (/\ NoValidPassword(req)
        /\ \/ AdminGet(req)
           \/ AdminReset(req)
           \/ \E body \in Bodies : AdminSave(req, body))
         => /\ resp'.status = StatusUnauthorized
            /\ DB' = DB
            /\ disk' = disk]_vars

UnauthorizedRejectedWitness ==
  /\ resp.status = StatusUnauthorized
  /\ ADMIN_PASSWORD = Password
  /\ DB.sent_keys # {}

\* C6: a delivery whose outbound call failed at change i has returned, and has
\* issued no call and logged no skip for a change after i.
BatchAbandoned ==
  \A d \in Slots :
    hs[d].failedAt # 0
      => /\ hs[d].pc = "done"
         /\ \A j \in hs[d].called \cup hs[d].skips : j <= hs[d].failedAt

BatchAbandonedWitness ==
  \E d \in Slots : hs[d].failedAt = 1 /\ hs[d].len > 1 /\ DB.sent_keys = {}

\* C7: the log holds the min(n, 200) entries created last, newest first, n
\* being the number of entries ever created; a step that creates an entry
\* shifts the others unchanged, and no other step touches the log.
LogKeepsLatest ==
  /\ [](/\ Len(DB.logs) = Min(nlogs, LogLimit)
        /\ Len(DB.logs) <= LogLimit
        /\ \A i \in 1..Len(DB.logs) : DB.logs[i].n = nlogs - i + 1)
  /\ [][IF nlogs' = nlogs THEN DB'.logs = DB.logs
        ELSE /\ nlogs' = nlogs + 1
             /\ IsPrefix(Tail(DB'.logs), DB.logs)]_vars

LogKeepsLatestWitness == nlogs > LogLimit /\ Len(DB.logs) = LogLimit

\* C8: whenever no handler is in progress, the document on disk is the store.
PersistedWhenQuiescent == Quiescent => disk = DB

\* C9: a delivery is acknowledged with 200 from the moment its handler starts,
\* whatever becomes of it; each step of its processing comes after; and a
\* pending outbound call does not hold the event loop.
AckFirst ==
  /\ [](\A d \in Slots :
          /\ hs[d].pc # "idle" => hs[d].status = StatusOK
          /\ hs[d].pc = "await" => running # d)
  /\ [][\A d \in Slots :
          /\ (hs[d].pc \in {"loop", "await"} /\ hs'[d] # hs[d])
               => hs[d].status = StatusOK
          /\ (nRecv' # nRecv /\ hs'[d] # hs[d])
               => /\ hs'[d].status = StatusOK
                  /\ hs'[d].called = {}
                  /\ DB' = DB
                  /\ disk' = disk
                  /\ replies' = replies]_vars

\* Two deliveries acknowledged, the call of each one pending.
AckFirstWitness ==
  /\ nRecv = 2
  /\ \A d \in {1, 2} : hs[d].pc = "await" /\ hs[d].status = StatusOK

\* C10: an authenticated save of an empty or all-space dm_text leaves dm_text
\* and sent_keys as they were, adds one "config" entry and saves.
Blank(t) == \A i \in 1..Len(t) : t[i] = " "

BlankSaveKeepsText ==
  [][\A req \in Requests, body \in Bodies :
       (/\ nAdmin' = nAdmin + 1
        /\ AdminSave(req, body)
        /\ ~body.has \/ Blank(body.dm_text))
         => /\ DB'.dm_text = DB.dm_text
            /\ DB'.sent_keys = DB.sent_keys
            /\ LoggedOne("config")
            /\ DB'.logs[1].msg = "DM text updated"
            /\ disk' = DB']_vars

BlankSaveKeepsTextWitness ==
  /\ resp.status = StatusFound
  /\ DB.dm_text = DefaultText
  /\ DB.logs[1].msg = "DM text updated"
  /\ disk = DB

\* C11: after an authenticated save, whichever way the password came (query
\* or header), the redirect leads to a GET /admin that is authenticated: the
\* request a client makes by following the Location (pass = the text the
\* redirect carries, no x-admin-pass header) is not answered 401.
RedirectKeepsCredential ==
  resp.status = StatusFound
    => requireAuth([query |-> resp.loc, header |-> Undefined])

\* C12: GET /webhook answers 200 with the challenge as its body exactly when
\* mode is "subscribe" and a verify_token is supplied that equals the
\* configured one, and 403 in every other case, a missing token among them;
\* the store and the file are unchanged either way.
VerifyContract ==
  [][\A q \in Queries :
       Verify(q)
         => /\ IF q.mode = "subscribe" /\ q.token # Undefined /\ q.token = VERIFY_TOKEN
                 THEN /\ vresp'.status = StatusOK
                      /\ q.challenge # Undefined => vresp'.body = q.challenge
                 ELSE vresp'.status = StatusForbidden
            /\ DB' = DB
            /\ disk' = disk]_vars

\* C13: when the outbound call of a delivery fails, one "error" entry is
\* added, sent_keys and the count of replies stay as they were (the key of the
\* failed change is not inserted, the keys of earlier successes stay), the
\* store is saved, and the key of the failed change is in sent_keys only if
\* another delivery's reply for it succeeded; and a delivery that comes to a
\* well-formed change whose key is not in sent_keys issues the call.
FailureRecorded ==
  [][/\ \A d \in Slots :
          (hs[d].pc = "await" /\ hs'[d].pc # "await" /\ nFail' = nFail + 1)
            => /\ LoggedOne("error")
               /\ DB'.sent_keys = DB.sent_keys
               /\ DB'.dm_text = DB.dm_text
               /\ replies' = replies
               /\ disk' = DB'
               /\ Key(Cur(d)) \in DB'.sent_keys => replies[Key(Cur(d))] > 0
     /\ \A d \in Slots :
          (AtChange(d) /\ ~Malformed(Cur(d)) /\ Key(Cur(d)) \notin DB.sent_keys)
            => /\ hs'[d].pc = "await"
               /\ hs'[d].called = hs[d].called \cup {hs[d].i}]_vars

\* The call for m1:u1 failed and was recorded; a later delivery of the same
\* event has its call pending.
FailureRecordedWitness ==
  /\ nFail = 1
  /\ nRecv = 2
  /\ nAdmin = 0
  /\ received = {"m1:u1"}
  /\ DB.sent_keys = {}
  /\ hs[1].pc = "await"
  /\ hs[2].pc = "idle"
  /\ DB.logs[1].type = "error"
  /\ disk = DB

\* C14: no step removes a key from sent_keys except an authenticated reset,
\* which removes them all: a webhook delivery, an admin save, an admin read, a
\* verification request and a rejected admin request leave every key in place.
KeysOnlyGrow ==
  [][IF nAdmin' = nAdmin + 1 /\ DB'.logs[1].msg = "sent_keys reset"
       THEN DB'.sent_keys = {}
       ELSE DB.sent_keys \subseteq DB'.sent_keys]_vars

\* Both keys were recorded, a verification request was answered, and the
\* reset removed both.
KeysOnlyGrowWitness ==
  /\ nAdmin = 1
  /\ DB.logs[1].msg = "sent_keys reset"
  /\ cleared = Keys
  /\ DB.sent_keys = {}
  /\ vresp.status = StatusOK

\* C15: a delivery whose payload is of another object type than "instagram"
\* returns at once: no call, no log entry, no change of the store or the file.
\* A change that lacks its comment id, post id or commenter id is passed over
\* the same way, and the delivery goes on to the next change of the batch.
MissingField(c) == \E f \in {"id", "media", "from"} : c[f] = Undefined

NonEventsIgnored ==
  [][/\ \A d \in Slots, p \in Payloads :
          (p.object # "instagram" /\ Receive(d, p))
            => /\ hs'[d].pc = "done"
               /\ hs'[d].called = {}
               /\ hs'[d].skips = {}
               /\ running' = 0
               /\ DB' = DB
               /\ disk' = disk
               /\ replies' = replies
     /\ \A d \in Slots :
          (AtChange(d) /\ MissingField(Cur(d)))
            => /\ hs'[d].pc = "loop"
               /\ hs'[d].i = hs[d].i + 1
               /\ hs'[d].called = hs[d].called
               /\ hs'[d].skips = hs[d].skips
               /\ running' = d
               /\ DB' = DB
               /\ disk' = disk
               /\ replies' = replies]_vars

\* The first change of the only delivery lacked its post id: nothing was
\* logged, and the call for the second change is pending.
NonEventsIgnoredWitness ==
  /\ nRecv = 1
  /\ nlogs = 0
  /\ DB.sent_keys = {}
  /\ \E d \in Slots :
       /\ hs[d].pc = "await"
       /\ hs[d].i = 2
       /\ MissingField(hs[d].batch[1])
       /\ hs[d].called = {2}

\* C16: a delivery is atomic with respect to the other requests: from the
\* dedupe test of a change until its key is recorded and saved (that is,
\* while its outbound call is pending) no step changes the store and no other
\* delivery performs its own dedupe test.
DedupeTest(e) ==
  /\ hs[e].pc = "loop"
  /\ hs[e].i <= Len(hs[e].batch)
  /\ ~MissingField(hs[e].batch[hs[e].i])
  /\ hs'[e] # hs[e]

DeliveryAtomic ==
  [][\A d \in Slots :
       (hs[d].pc = "await" /\ hs'[d].pc = "await")
         => /\ DB' = DB
            /\ \A e \in Slots \ {d} : ~DedupeTest(e)]_vars

\* C17: an outbound call carries the dm_text the store holds at the moment the
\* call is issued; an authenticated save of a text that is not blank makes its
\* trimmed form the dm_text, and nothing else changes dm_text: so every call
\* issued after the save carries the saved text until the next such save, the
\* calls for the later changes of a batch begun before the save included.
ReplyCarriesCurrentText ==
  [][/\ \A d \in Slots :
          (hs[d].pc = "loop" /\ hs'[d].pc = "await") => hs'[d].msg = DB.dm_text
     /\ \A req \in Requests, body \in Bodies :
          (nAdmin' = nAdmin + 1 /\ AdminSave(req, body) /\ body.has /\ ~Blank(body.dm_text))
            => DB'.dm_text = Trim(body.dm_text)
     /\ DB'.dm_text # DB.dm_text
          => /\ nAdmin' = nAdmin + 1
             /\ DB'.logs[1].msg = "DM text updated"]_vars

\* A delivery that began under the default text has the call of its second
\* change pending, carrying the text saved since.
ReplyCarriesCurrentTextWitness ==
  \E d \in Slots :
    /\ hs[d].pc = "await"
    /\ hs[d].i = 2
    /\ hs[d].called = {1, 2}
    /\ hs[d].text0 = DefaultText
    /\ hs[d].msg = <<"x">>
    /\ DB.dm_text = <<"x">>

\* C18: every key of sent_keys has had a successful reply since the last
\* reset; a "sent" entry is created in the step that inserts its key and
\* counts its reply, and a key is inserted in no other step; issuing a call
\* and the failure of a call insert no key and create no "sent" entry.
KeysAreReplies ==
  /\ [](\A k \in DB.sent_keys : replies[k] > 0)
  /\ [][/\ (nlogs' # nlogs /\ DB'.logs[1].type = "sent")
             => LET k == DB'.logs[1].key
                IN  /\ DB'.sent_keys = DB.sent_keys \cup {k}
                    /\ replies'[k] = replies[k] + 1
        /\ \A k \in DB'.sent_keys \ DB.sent_keys :
             /\ nlogs' = nlogs + 1
             /\ DB'.logs[1].type = "sent"
             /\ DB'.logs[1].key = k
             /\ replies'[k] = replies[k] + 1
        /\ \A d \in Slots :
             (hs[d].pc = "loop" /\ hs'[d].pc = "await")
               => /\ DB'.sent_keys = DB.sent_keys
                  /\ DB'.logs = DB.logs
        /\ nFail' = nFail + 1
             => /\ DB'.sent_keys = DB.sent_keys
                /\ DB'.logs[1].type # "sent"]_vars

\* m1:u1 was replied to and is recorded; a call has failed, the call for
\* m2:u1 is pending, and m2:u1 is not recorded.
KeysAreRepliesWitness ==
  /\ nFail = 1
  /\ DB.sent_keys = {"m1:u1"}
  /\ replies["m1:u1"] = 1
  /\ replies["m2:u1"] = 0
  /\ \E d \in Slots : hs[d].pc = "await" /\ Key(Cur(d)) = "m2:u1"

\* C19: from the default store, dm_text is not empty in any reachable state,
\* whatever is saved, on disk as in memory; and the message of every outbound
\* call is not empty.
TextNeverEmpty ==
  /\ DB.dm_text # <<>>
  /\ disk.dm_text # <<>>
  /\ \A d \in Slots : hs[d].pc = "await" => hs[d].msg # <<>>

\* An authenticated save of a blank text has been made (the text is still the
\* default one), and a call is pending that carries the default text.
TextNeverEmptyWitness ==
  /\ nAdmin = 1
  /\ resp.status = StatusFound
  /\ DB.dm_text = DefaultText
  /\ \E d \in Slots : hs[d].pc = "await" /\ hs[d].msg = DefaultText
====
